---- MODULE Spec2Model ----
(***************************************************************************)
(* choreograph::Sequence<T> (src/src/choreograph/Sequence.hpp) as a state  *)
(* machine: one Sequence object, its three fields, and one action per      *)
(* public composition call.  The const methods (getValue, wrapTime,        *)
(* getValueWrapped, copy, slice, endValue ...) are operators over the      *)
(* fields; a call of one of them leaves what it returned in ret.           *)
(*                                                                         *)
(* Floats (times and values of T = float) are held as fixed-point halves:  *)
(* F(x) is the float x.  Every interpolation the model evaluates is exact  *)
(* in this unit (value differences are multiples of F(2), spans are 2 or 4 *)
(* halves).  Float rounding, infinities and NaN arguments are not          *)
(* modelled; the NaN that fmodf returns for a zero divisor is.             *)
(***************************************************************************)
EXTENDS Integers, Sequences, FiniteSets, TLC

\* seq: the Sequence object under construction, its three fields.
\* ret: what the last call of a const method returned.
VARIABLES seq, ret

vars == <<seq, ret>>

\* ---------------------------------------------------------------- bounds
\* The longest phrase list the model builds.
MaxPhrases == 3

\* The float x in the model's fixed-point unit (1/2).
F(x) == 2 * x

\* Values of T the callers pass (and seed the Sequence with).
Values == {F(0), F(10)}
\* The values of the set() scenario: Sequence<float> s(3.0f); s.set(7.0f).
SetValues == {F(3), F(7)}
\* Duration arguments: float, so negative and zero are accepted too.
Durations == {-F(1), 0, F(1), F(2)}
\* Start times a caller-built phrase may carry before then(phrase) shifts it.
PhraseStarts == {0, F(1)}
\* Query times (every half second from -1.5 s to past the longest duration).
Times == (-3) .. (MaxPhrases * F(2) + 2)

\* Inflection points passed to wrapTime and getValueWrapped, in ticks.
InflectionPoints == {-F(1), 0, F(1), F(2)}

\* ------------------------------------------------------- Phrase.hpp (leaf)
\* The ease functions the Sequence names.
EaseFns == {"easeNone", "easeHold"}

Position(value, time) == [value |-> value, time |-> time]

Phrase(start, end, motion) == [start |-> start, end |-> end, motion |-> motion]

getStartValue(p) == p.start.value
getEndValue(p) == p.end.value
getStartTime(p) == p.start.time
getEndTime(p) == p.end.time

setStartValue(p, value) == [p EXCEPT !.start.value = value]

\* Moves the phrase to start at time, keeping its own duration.
shiftStartTimeTo(p, time) ==
    [p EXCEPT !.start.time = time,
              !.end.time = time + (p.end.time - p.start.time)]

\* The float NaN, held as an integer no time or value of the model comes near.
NaN == -1000000

\* Value of the phrase at atTime: the blend of start and end value at the
\* normalised progress (atTime - start) / (end - start).  easeHold ignores
\* the progress (taken as 0); easeNone is the identity, and a phrase of
\* span 0 has no progress to blend at (a division by zero).
Phrase_getValue(p, atTime) ==
    LET num == atTime - p.start.time
        den == p.end.time - p.start.time
    IN  IF p.motion = "easeHold" THEN p.start.value
        ELSE IF den = 0 THEN NaN
        ELSE p.start.value + ((p.end.value - p.start.value) * num) \div den

\* ------------------------------------------------------------ the object
\* A Sequence object s: [_phrases, _initial_value, _duration].
\* explicit Sequence( const T &value )
Sequence(value) ==
    [_phrases |-> <<>>, _initial_value |-> value, _duration |-> 0]

getDuration(s) == s._duration

endValue(s) == IF s._phrases = <<>> THEN s._initial_value
               ELSE getEndValue(s._phrases[Len(s._phrases)])

initialValue(s) == s._initial_value

getPhraseCount(s) == Len(s._phrases)

\* What a call returned: kind says which method, at where a returned
\* pointer points ("new": an object of its own, "this": the Sequence it was
\* called on), obj the Sequence returned, val the float or T returned, args
\* the arguments of the call.
Returned(kind, at, obj, val, args) ==
    [kind |-> kind, at |-> at, obj |-> obj, val |-> val, args |-> args]

NoObject == [_phrases |-> <<>>, _initial_value |-> 0, _duration |-> 0]

\* Nothing was returned yet.
NoReturn == Returned("none", "none", NoObject, 0, <<>>)

\* ------------------------------------------------------------- evaluation
\* std::fmodf: the remainder has the sign of x; a zero divisor gives NaN.
fmodf(x, y) ==
    LET ax == IF x < 0 THEN -x ELSE x
        ay == IF y < 0 THEN -y ELSE y
    IN  IF y = 0 THEN NaN
        ELSE IF x < 0 THEN -(ax % ay) ELSE ax % ay

\* The comparison of wrapTime taken the wrong way round.
wrapTime_inverted(s, time, inflectionPoint) ==
    IF time < getDuration(s)
    THEN LET r == fmodf(time, getDuration(s) - inflectionPoint)
         IN  IF r = NaN THEN NaN ELSE inflectionPoint + r
    ELSE time

wrapTime(s, time, inflectionPoint) ==
    IF time > getDuration(s)
    THEN LET r == fmodf(time, getDuration(s) - inflectionPoint)
         IN  IF r = NaN THEN NaN ELSE inflectionPoint + r
    ELSE time

\* The scan with the end time compared inclusively.
RECURSIVE scan_inclusive(_, _, _)
scan_inclusive(s, iter, atTime) ==
    IF iter > Len(s._phrases) THEN 0
    ELSE IF getEndTime(s._phrases[iter]) >= atTime THEN iter
    ELSE scan_inclusive(s, iter + 1, atTime)

\* The scan that stops one phrase short of the end of the list.
RECURSIVE scan_stops_short(_, _, _)
scan_stops_short(s, iter, atTime) ==
    IF iter >= Len(s._phrases) THEN 0
    ELSE IF getEndTime(s._phrases[iter]) > atTime THEN iter
    ELSE scan_stops_short(s, iter + 1, atTime)

\* The while loop of getValue from position iter on: the first phrase whose
\* end time is after atTime, or 0 when the loop runs off the end.
RECURSIVE scan(_, _, _)
scan(s, iter, atTime) ==
    IF iter > Len(s._phrases) THEN 0
    ELSE IF getEndTime(s._phrases[iter]) > atTime THEN iter
    ELSE scan(s, iter + 1, atTime)

\* Every comparison with NaN is false: both early returns are skipped, no
\* phrase is selected and the final return is taken.
getValue(s, atTime) ==
    IF atTime = NaN THEN endValue(s)
    ELSE IF atTime < 0 THEN s._initial_value
    ELSE IF atTime >= s._duration THEN endValue(s)
    ELSE LET iter == scan(s, 1, atTime)
         IN  IF iter # 0 THEN Phrase_getValue(s._phrases[iter], atTime)
             ELSE endValue(s)

getValueWrapped(s, time, inflectionPoint) ==
    getValue(s, wrapTime(s, time, inflectionPoint))

\* ------------------------------------------------------------ composition
\* Each method gives the object as the call leaves it.

\* hold that pushes the phrase and leaves _duration as it was.
hold_value_stale(s, value, duration) ==
    LET start == Position(value, s._duration)
        end == Position(value, s._duration + duration)
        phrase == Phrase(start, end, "easeHold")
    IN  [s EXCEPT !._phrases = Append(s._phrases, phrase)]

\* hold that puts the phrase in front of the list.
hold_value_in_front(s, value, duration) ==
    LET start == Position(value, s._duration)
        end == Position(value, s._duration + duration)
        phrase == Phrase(start, end, "easeHold")
    IN  [s EXCEPT !._phrases = <<phrase>> \o s._phrases,
                  !._duration = getEndTime(phrase)]

\* hold( const T &value, float duration )
hold_value(s, value, duration) ==
    LET start == Position(value, s._duration)
        end == Position(value, s._duration + duration)
        phrase == Phrase(start, end, "easeHold")
    IN  [s EXCEPT !._phrases = Append(s._phrases, phrase),
                  !._duration = getEndTime(phrase)]

\* hold( float duration )
hold(s, duration) == hold_value(s, endValue(s), duration)

\* set without the test for an empty phrase list.
set_always_holds(s, value) == hold_value(s, value, 0)

\* set with its test taken the wrong way round.
set_inverted(s, value) ==
    IF s._phrases # <<>>
    THEN [s EXCEPT !._initial_value = value]
    ELSE hold_value(s, value, 0)

set(s, value) ==
    IF s._phrases = <<>>
    THEN [s EXCEPT !._initial_value = value]
    ELSE hold_value(s, value, 0)

\* rampTo starting from the initial value instead of the end value.
rampTo_from_initial(s, value, duration, easeFn) ==
    LET start == Position(s._initial_value, s._duration)
        end == Position(value, s._duration + duration)
        phrase == Phrase(start, end, easeFn)
    IN  [s EXCEPT !._phrases = Append(s._phrases, phrase),
                  !._duration = getEndTime(phrase)]

rampTo(s, value, duration, easeFn) ==
    LET start == Position(endValue(s), s._duration)
        end == Position(value, s._duration + duration)
        phrase == Phrase(start, end, easeFn)
    IN  [s EXCEPT !._phrases = Append(s._phrases, phrase),
                  !._duration = getEndTime(phrase)]

\* then( const T &value, float duration, Args... args ), args an ease function
then(s, value, duration, easeFn) ==
    LET start == Position(endValue(s), s._duration)
        end == Position(value, s._duration + duration)
        phrase == Phrase(start, end, easeFn)
    IN  [s EXCEPT !._phrases = Append(s._phrases, phrase),
                  !._duration = getEndTime(phrase)]

\* then(phrase) that pushes the phrase where the caller placed it.
then_phrase_unshifted(s, phrase) ==
    LET rebound == setStartValue(phrase, endValue(s))
    IN  [s EXCEPT !._duration = getEndTime(rebound),
                  !._phrases = Append(s._phrases, rebound)]

\* then(phrase) that reads the end time before shifting the phrase.
then_phrase_early_duration(s, phrase) ==
    LET rebound == setStartValue(phrase, endValue(s))
        shifted == shiftStartTimeTo(rebound, s._duration)
    IN  [s EXCEPT !._duration = getEndTime(rebound),
                  !._phrases = Append(s._phrases, shifted)]

\* then( PhraseT phrase )
then_phrase(s, phrase) ==
    LET rebound == setStartValue(phrase, endValue(s))
        shifted == shiftStartTimeTo(rebound, s._duration)
    IN  [s EXCEPT !._duration = getEndTime(shifted),
                  !._phrases = Append(s._phrases, shifted)]

\* ease that sets the motion of every phrase.
ease_all(s, easeFn) ==
    [s EXCEPT !._phrases = [i \in 1 .. Len(s._phrases) |->
                               [s._phrases[i] EXCEPT !.motion = easeFn]]]

ease(s, easeFn) ==
    IF s._phrases # <<>>
    THEN [s EXCEPT !._phrases[Len(s._phrases)].motion = easeFn]
    ELSE s

\* ------------------------------------------------------- copies and slices

\* A copy whose pointer is to the Sequence it was taken of.
copy_alias(s) == Returned("copy", "this", s, 0, <<>>)

\* copy(): std::make_shared<SequenceT>( *this ), a pointer to a Sequence of
\* its own, copy-constructed from this one.
copy(s) == Returned("copy", "new", s, 0, <<>>)

\* The Sequence a returned pointer r points to, s being the Sequence the
\* call was made on.
Pointee(r, s) == IF r.at = "this" THEN s ELSE r.obj

\* Largest phrase count of the Sequences that are sliced.
MaxObjectPhrases == 2

\* size_t arithmetic wraps around.  The modulus is held just past the
\* sizes the callers pass, so that begin + size can wrap as it does at the
\* width of size_t.
SizeWrap == MaxObjectPhrases + 2

\* What a Sequence can hold after its constructor read the front and the
\* back of an empty vector: no phrases, and an initial value and duration
\* that were never written by this program.
Garbage ==
    { [_phrases |-> <<>>, _initial_value |-> value, _duration |-> duration] :
        value \in Values, duration \in {0, F(1)} }

\* explicit Sequence( const std::vector<PhraseT> &phrases ): the Sequences
\* the constructor can give.  The initial value is taken as the start value
\* of the first phrase (line 56 writes phrases.begin().getStartValue()).
\* Reading the first and last element of an empty vector is undefined.
Sequence_phrases(phrases) ==
    IF phrases = <<>> THEN Garbage
    ELSE { [_phrases |-> phrases,
            _initial_value |-> getStartValue(phrases[1]),
            _duration |-> getEndTime(phrases[Len(phrases)])] }

\* slice( size_t begin, size_t size ): what the call can return.  Both
\* asserts are compiled in.  kind is "assert" when one of them fails,
\* "slice" when a Sequence was constructed from a non-empty range, and
\* "undefined" or "crash" when the range [begin, begin + size) handed to the
\* vector is empty (the constructor then reads an empty vector) or ends
\* before it begins (begin + size wrapped around).
slice(s, begin, size) ==
    LET count == Len(s._phrases)
        last == (begin + size) % SizeWrap
        args == <<begin, size>>
        crash == Returned("crash", "none", NoObject, 0, args)
    IN  IF ~(begin < count) \/ ~(last <= count)
        THEN { Returned("assert", "none", NoObject, 0, args) }
        ELSE IF last < begin
        THEN { Returned("undefined", "new", made, 0, args) : made \in Garbage }
             \cup {crash}
        ELSE LET phrases == SubSeq(s._phrases, begin + 1, last)
             IN  IF phrases = <<>>
                 THEN { Returned("undefined", "new", made, 0, args) :
                          made \in Sequence_phrases(phrases) } \cup {crash}
                 ELSE { Returned("slice", "new", made, 0, args) :
                          made \in Sequence_phrases(phrases) }

\* ------------------------------------------------------------- the caller
\* Phrases a caller may build and hand to then(phrase).
PhraseArgs(V) ==
    { Phrase(Position(sv, st), Position(ev, st + d), m) :
        sv \in V, ev \in V, st \in PhraseStarts, d \in Durations, m \in EaseFns }

CanAppend == Len(seq._phrases) < MaxPhrases

CallSet(value) ==
    /\ seq._phrases = <<>> \/ CanAppend
    /\ seq' = set(seq, value)
    /\ UNCHANGED ret

CallHold(duration) ==
    /\ CanAppend
    /\ seq' = hold(seq, duration)
    /\ UNCHANGED ret

CallHoldValue(value, duration) ==
    /\ CanAppend
    /\ seq' = hold_value(seq, value, duration)
    /\ UNCHANGED ret

CallRampTo(value, duration, easeFn) ==
    /\ CanAppend
    /\ seq' = rampTo(seq, value, duration, easeFn)
    /\ UNCHANGED ret

CallThen(value, duration, easeFn) ==
    /\ CanAppend
    /\ seq' = then(seq, value, duration, easeFn)
    /\ UNCHANGED ret

CallThenPhrase(phrase) ==
    /\ CanAppend
    /\ seq' = then_phrase(seq, phrase)
    /\ UNCHANGED ret

CallEase(easeFn) ==
    /\ seq' = ease(seq, easeFn)
    /\ UNCHANGED ret

Init ==
    /\ \E value \in Values : seq = Sequence(value)
    /\ ret = NoReturn

Next ==
    \/ \E value \in Values : CallSet(value)
    \/ \E duration \in Durations : CallHold(duration)
    \/ \E value \in Values, duration \in Durations : CallHoldValue(value, duration)
    \/ \E value \in Values, duration \in Durations, easeFn \in EaseFns :
          CallRampTo(value, duration, easeFn)
    \/ \E value \in Values, duration \in Durations, easeFn \in EaseFns :
          CallThen(value, duration, easeFn)
    \/ \E phrase \in PhraseArgs(Values) : CallThenPhrase(phrase)
    \/ \E easeFn \in EaseFns : CallEase(easeFn)

Spec == Init /\ [][Next]_vars

\* Sequences built purely by the appending calls hold, rampTo and then.
NextAppend ==
    \/ \E duration \in Durations : CallHold(duration)
    \/ \E value \in Values, duration \in Durations : CallHoldValue(value, duration)
    \/ \E value \in Values, duration \in Durations, easeFn \in EaseFns :
          CallRampTo(value, duration, easeFn)
    \/ \E value \in Values, duration \in Durations, easeFn \in EaseFns :
          CallThen(value, duration, easeFn)
    \/ \E phrase \in PhraseArgs(Values) : CallThenPhrase(phrase)

SpecAppend == Init /\ [][NextAppend]_vars

\* The set() scenario: Sequence<float> s(3.0f), then calls with 3 and 7.
InitSet ==
    /\ seq = Sequence(F(3))
    /\ ret = NoReturn

NextSet ==
    \/ \E value \in SetValues : CallSet(value)
    \/ \E duration \in Durations : CallHold(duration)
    \/ \E value \in SetValues, duration \in Durations : CallHoldValue(value, duration)
    \/ \E value \in SetValues, duration \in Durations, easeFn \in EaseFns :
          CallRampTo(value, duration, easeFn)
    \/ \E value \in SetValues, duration \in Durations, easeFn \in EaseFns :
          CallThen(value, duration, easeFn)
    \/ \E phrase \in PhraseArgs(SetValues) : CallThenPhrase(phrase)
    \/ \E easeFn \in EaseFns : CallEase(easeFn)

SpecSet == InitSet /\ [][NextSet]_vars

\* --------------------------------------------------- callers of two objects
\* Largest phrase count of the Sequences that are copied.
MaxCopyPhrases == 1

\* Durations passed to the composition calls on Sequences that are copied.
CopyDurations == {F(1)}

\* What one composition call (set, hold, rampTo, then, ease) can make of
\* Sequence s, appends being made up to cap phrases with values of V and
\* durations of D.
CallResults(s, cap, V, D) ==
    LET room == Len(s._phrases) < cap
    IN  { ease(s, easeFn) : easeFn \in EaseFns }
        \cup { set(s, value) : value \in IF s._phrases = <<>> \/ room
                                           THEN V ELSE {} }
        \cup IF ~room THEN {}
             ELSE { hold(s, duration) : duration \in D }
                  \cup { hold_value(s, value, duration) :
                           value \in V, duration \in D }
                  \cup { rampTo(s, value, duration, easeFn) :
                           value \in V, duration \in D,
                           easeFn \in EaseFns }
                  \cup { then(s, value, duration, easeFn) :
                           value \in V, duration \in D,
                           easeFn \in EaseFns }
                  \cup { then_phrase(s, Phrase(Position(sv, st),
                                               Position(ev, st + duration),
                                               "easeNone")) :
                           sv \in V, ev \in V, st \in PhraseStarts,
                           duration \in D }

\* auto c = seq.copy();
CallCopy ==
    /\ ret' = copy(seq)
    /\ UNCHANGED seq

\* A composition call on the Sequence itself.
CallOnOriginal(cap, V, D) ==
    /\ \E after \in CallResults(seq, cap, V, D) : seq' = after
    /\ UNCHANGED ret

\* A composition call through the pointer that copy() returned: c->hold(..)
CallOnCopy(cap, V, D) ==
    /\ ret.kind = "copy"
    /\ \E after \in CallResults(Pointee(ret, seq), cap, V, D) :
           IF ret.at = "this"
           THEN seq' = after /\ UNCHANGED ret
           ELSE ret' = [ret EXCEPT !.obj = after] /\ UNCHANGED seq

NextCopy ==
    \/ CallCopy
    \/ CallOnOriginal(MaxCopyPhrases, Values, CopyDurations)
    \/ CallOnCopy(MaxCopyPhrases, Values, CopyDurations)

\* A Sequence, a copy of it, and composition calls on either.
SpecCopy == Init /\ [][NextCopy]_vars

\* ----------------------------------------------- callers of the const methods
\* Durations passed to the composition calls on Sequences that are sliced
\* (set on a Sequence with phrases adds the duration 0).
ObjectDurations == {-F(1), F(1)}

\* Values passed to them.
ObjectValues == {F(10)}

\* Arguments begin and size of slice: every size_t of the model's width.
Sizes == 0 .. (SizeWrap - 1)

\* Times and inflection points passed to the evaluation methods.
QueryTimes == {-F(1), 0, F(1), F(3)}

QueryInflections == {0, F(1)}

\* auto part = seq.slice( begin, size );
CallSlice(begin, size) ==
    /\ ret' \in slice(seq, begin, size)
    /\ UNCHANGED seq

\* seq.getValue( atTime );
CallGetValue(atTime) ==
    /\ ret' = Returned("getValue", "none", NoObject, getValue(seq, atTime), <<>>)
    /\ UNCHANGED seq

\* seq.wrapTime( time, inflectionPoint );
CallWrapTime(time, inflectionPoint) ==
    /\ ret' = Returned("wrapTime", "none", NoObject,
                       wrapTime(seq, time, inflectionPoint), <<>>)
    /\ UNCHANGED seq

\* seq.getValueWrapped( time, inflectionPoint );
CallGetValueWrapped(time, inflectionPoint) ==
    /\ ret' = Returned("getValueWrapped", "none", NoObject,
                       getValueWrapped(seq, time, inflectionPoint), <<>>)
    /\ UNCHANGED seq

\* A failed assert or a crash ends the program.
Running == ret.kind \notin {"assert", "crash"}

NextObjects ==
    \/ Running /\ CallOnOriginal(MaxObjectPhrases, ObjectValues, ObjectDurations)
    \/ Running /\ CallCopy
    \/ \E begin \in Sizes, size \in Sizes : Running /\ CallSlice(begin, size)
    \/ \E atTime \in QueryTimes : Running /\ CallGetValue(atTime)
    \/ \E time \in QueryTimes, inflectionPoint \in QueryInflections :
           Running /\ CallWrapTime(time, inflectionPoint)
    \/ \E time \in QueryTimes, inflectionPoint \in QueryInflections :
           Running /\ CallGetValueWrapped(time, inflectionPoint)

\* A Sequence under composition with calls of its const methods in between.
SpecObjects == Init /\ [][NextObjects]_vars

\* The Sequences in hand: the one under composition and, when the last call
\* returned one, the copy or slice of it.
Objects ==
    {seq} \cup IF ret.kind \in {"copy", "slice"} THEN {Pointee(ret, seq)} ELSE {}

\* ------------------------------------------------------------- scenarios
\* A caller-built phrase: from (sv, st) to (ev, st + d), linear.
Built(sv, st, ev, d) == Phrase(Position(sv, st), Position(ev, st + d), "easeNone")

Last(s) == s._phrases[Len(s._phrases)]

\* Adjacent phrase pairs of s, by the index of the earlier phrase.
Pairs(s) == 1 .. (Len(s._phrases) - 1)

\* Every phrase of s ends no earlier than it starts: no negative duration
\* was passed while s was built.
NonNegativeSpans(s) ==
    \A i \in 1 .. Len(s._phrases) :
        getEndTime(s._phrases[i]) >= getStartTime(s._phrases[i])

\* ---------------------------------------------------------------- claims

\* C1: after every call, getDuration() is 0 when the phrase list is empty
\* and the end time of the last phrase otherwise.
DurationIsLastEndTime ==
    getDuration(seq) = IF seq._phrases = <<>> THEN 0 ELSE getEndTime(Last(seq))

\* C1 witness: hold(10, 1 s) then then(phrase) of a 2 s phrase built at 1 s.
DurationAfterHoldThenPhrase ==
    /\ seq = then_phrase(hold_value(Sequence(F(0)), F(10), F(1)),
                         Built(F(0), F(1), F(0), F(2)))
    /\ getDuration(seq) = F(3)

\* C2: every adjacent pair of phrases tiles time: the earlier phrase ends
\* where the later one starts.
PhrasesTileTime ==
    \A i \in Pairs(seq) :
        getEndTime(seq._phrases[i]) = getStartTime(seq._phrases[i + 1])

\* C2 witness: a phrase built to start at 1 s is appended by then(phrase)
\* to a sequence of duration 2 s and starts at 2 s there.
ShiftedPhraseTiles ==
    /\ seq = then_phrase(rampTo(Sequence(F(0)), F(10), F(2), "easeNone"),
                         Built(F(0), F(1), F(0), F(1)))
    /\ getStartTime(Last(seq)) = F(2)
    /\ getEndTime(Last(seq)) = F(3)

\* C3 as stated: for every adjacent pair the end value of the earlier phrase
\* is the start value of the later one, whatever values the caller passes
\* (read on the sequences built with non-negative durations alone).
ValueContinuityEverywhere ==
    NonNegativeSpans(seq) =>
        \A i \in Pairs(seq) :
            getEndValue(seq._phrases[i]) = getStartValue(seq._phrases[i + 1])

\* C3 amended: hold(duration), rampTo, then(value, duration) and
\* then(phrase) start the appended phrase at the end value the sequence had
\* before the call; hold(value, duration), and set on a sequence with
\* phrases, start (and end) it at the value passed.  Stated of every call
\* the caller can make in the state.
AppendStartValues ==
    LET n == Len(seq._phrases) + 1
        before == endValue(seq)
    IN  CanAppend =>
        /\ \A d \in Durations :
              getStartValue(hold(seq, d)._phrases[n]) = before
        /\ \A v \in Values, d \in Durations, e \in EaseFns :
              /\ getStartValue(rampTo(seq, v, d, e)._phrases[n]) = before
              /\ getStartValue(then(seq, v, d, e)._phrases[n]) = before
        /\ \A p \in PhraseArgs(Values) :
              getStartValue(then_phrase(seq, p)._phrases[n]) = before
        /\ \A v \in Values, d \in Durations :
              /\ getStartValue(hold_value(seq, v, d)._phrases[n]) = v
              /\ getEndValue(hold_value(seq, v, d)._phrases[n]) = v
        /\ \A v \in Values :
              seq._phrases # <<>> =>
                  /\ getStartValue(set(seq, v)._phrases[n]) = v
                  /\ getEndValue(set(seq, v)._phrases[n]) = v

\* C3 witness: a ramp to 10 followed by a ramp back, which starts at 10
\* although the sequence was seeded with 0.
RampStartsAtEndValue ==
    /\ seq = rampTo(rampTo(Sequence(F(0)), F(10), F(1), "easeNone"),
                    F(0), F(1), "easeNone")
    /\ getStartValue(Last(seq)) = F(10)
    /\ initialValue(seq) = F(0)

SuccessorSelected(s, i, b) ==
    /\ 0 <= b
    /\ b < getDuration(s)
    /\ \A j \in 1 .. i : getEndTime(s._phrases[j]) <= b
    /\ getEndTime(s._phrases[i + 1]) > b

ClampsBothEnds ==
    \A t \in Times :
        /\ t < 0 => getValue(seq, t) = initialValue(seq)
        /\ t >= getDuration(seq) => getValue(seq, t) = endValue(seq)

\* C6: an append of a phrase of span d adds d to the duration; set and ease
\* leave the duration unchanged.  Stated of every call the caller can make
\* in the state.
DurationAdditive ==
    LET old == getDuration(seq)
    IN  /\ CanAppend =>
            /\ \A d \in Durations :
                  getDuration(hold(seq, d)) = old + d
            /\ \A v \in Values, d \in Durations :
                  getDuration(hold_value(seq, v, d)) = old + d
            /\ \A v \in Values, d \in Durations, e \in EaseFns :
                  /\ getDuration(rampTo(seq, v, d, e)) = old + d
                  /\ getDuration(then(seq, v, d, e)) = old + d
            /\ \A p \in PhraseArgs(Values) :
                  getDuration(then_phrase(seq, p)) =
                      old + (getEndTime(p) - getStartTime(p))
        /\ \A v \in Values : getDuration(set(seq, v)) = old
        /\ \A e \in EaseFns : getDuration(ease(seq, e)) = old

\* C6 witness: a sequence of duration 2 s has taken a phrase of span 2 s
\* that was built to start at 1 s, and has duration 4 s.
AdditiveOverShiftedPhrase ==
    /\ seq = then_phrase(rampTo(Sequence(F(0)), F(10), F(2), "easeNone"),
                         Built(F(0), F(1), F(0), F(2)))
    /\ getDuration(seq) = F(4)

\* C7 as stated: no composition call makes getDuration() smaller, and it is
\* never negative.
DurationNeverDecreases ==
    [][ /\ getDuration(seq') >= getDuration(seq)
        /\ getDuration(seq') >= 0 ]_vars

\* C8: set on a sequence without phrases overwrites the initial value and
\* appends nothing; set on a sequence with phrases is hold(value, 0): one
\* more phrase, starting and ending at the unchanged duration, and
\* endValue() is the value set.
SetOverwritesOrHolds ==
    \A v \in Values :
        LET after == set(seq, v)
        IN  IF seq._phrases = <<>>
            THEN /\ initialValue(after) = v
                 /\ getPhraseCount(after) = 0
                 /\ getDuration(after) = 0
            ELSE /\ after = hold_value(seq, v, 0)
                 /\ getPhraseCount(after) = getPhraseCount(seq) + 1
                 /\ getDuration(after) = getDuration(seq)
                 /\ after._initial_value = seq._initial_value
                 /\ getStartTime(Last(after)) = getDuration(seq)
                 /\ getEndTime(Last(after)) = getDuration(seq)
                 /\ endValue(after) = v

\* C8 witness: set(10) after a 1 s hold of 0 has appended a phrase of
\* duration 0 at 1 s.
SetAfterHold ==
    /\ seq = set(hold(Sequence(F(0)), F(1)), F(10))
    /\ getPhraseCount(seq) = 2
    /\ endValue(seq) = F(10)

\* The sequence of the scenario: Sequence<float> s(3.0f); s.set(7.0f);
SeedThenSet == set(Sequence(F(3)), F(7))

\* C9 as stated: after s.set(7) on the fresh Sequence(3) there is one
\* phrase and the value before time 0 is still 3.
SetOnSeedAppendsPhrase ==
    seq = SeedThenSet =>
        /\ getPhraseCount(seq) = 1
        /\ endValue(seq) = F(7)
        /\ getValue(seq, -F(1)) = F(3)
        /\ getValue(seq, 0) = F(7)

\* C9 amended: after s.set(7) on the fresh Sequence(3) there is no phrase,
\* the initial value is 7, and getValue is 7 at -1 and at 0.
SetOnSeedOverwritesInitial ==
    seq = SeedThenSet =>
        /\ getPhraseCount(seq) = 0
        /\ initialValue(seq) = F(7)
        /\ endValue(seq) = F(7)
        /\ getValue(seq, -F(1)) = F(7)
        /\ getValue(seq, 0) = F(7)

\* C9 witness: the scenario's sequence, with the seed value 3 gone.
SeedOverwritten ==
    /\ seq = SeedThenSet
    /\ initialValue(seq) # F(3)

\* The sequence of the scenario:
\* Sequence<float> s(0.0f); s.rampTo(10, 2); s.hold(1); s.rampTo(0, 2);
RampHoldRamp ==
    rampTo(hold(rampTo(Sequence(F(0)), F(10), F(2), "easeNone"), F(1)),
           F(0), F(2), "easeNone")

\* C10: on that sequence the duration is 5, the values at 1, 2.5, 4 and 10
\* are 5, 10, 5 and 0, and the wrapped value at 6 is the value at 1.
RampHoldRampValues ==
    seq = RampHoldRamp =>
        /\ getDuration(seq) = F(5)
        /\ getValue(seq, F(1)) = F(5)
        /\ getValue(seq, F(2) + 1) = F(10)
        /\ getValue(seq, F(4)) = F(5)
        /\ getValue(seq, F(10)) = F(0)
        /\ wrapTime(seq, F(6), 0) = F(1)
        /\ getValueWrapped(seq, F(6), 0) = getValue(seq, F(1))
        /\ getValueWrapped(seq, F(6), 0) = F(5)

\* C10 witness: the scenario's sequence, three phrases long.
RampHoldRampBuilt ==
    /\ seq = RampHoldRamp
    /\ getPhraseCount(seq) = 3

\* C11: in every reachable sequence built with non-negative durations, the
\* one of duration 0 included, for every time t and every inflection point
\* that does not lie past the end: wrapTime(t, ip) is t when t is at most
\* the duration, and otherwise it is a number (not NaN) that lies in
\* [ip, duration].
WrapTimeDefinedAndInRange ==
    NonNegativeSpans(seq) =>
        \A t \in Times : \A ip \in InflectionPoints :
            LET w == wrapTime(seq, t, ip)
            IN  /\ t <= getDuration(seq) => w = t
                /\ (t > getDuration(seq) /\ ip <= getDuration(seq)) =>
                       /\ w # NaN
                       /\ ip <= w
                       /\ w <= getDuration(seq)

\* C12: copy() returns a Sequence with the initial value, phrases and
\* duration of the original; afterwards no composition call on the copy
\* changes the original (its phrases, duration, initial value and its value
\* at every time), and no composition call on the original changes the copy.
CopyIsIndependent ==
    [][ /\ (ret' # ret /\ ret'.kind = "copy" /\ ret.kind = "none") =>
               /\ Pointee(ret', seq') = seq
               /\ seq' = seq
        /\ CallOnCopy(MaxCopyPhrases, Values, CopyDurations) =>
               /\ seq' = seq
               /\ \A t \in Times : getValue(seq', t) = getValue(seq, t)
        /\ (ret.kind = "copy" /\ CallOnOriginal(MaxCopyPhrases, Values, CopyDurations)) =>
               /\ Pointee(ret', seq') = Pointee(ret, seq)
               /\ \A t \in Times : getValue(Pointee(ret', seq'), t)
                                       = getValue(Pointee(ret, seq), t)
      ]_vars

\* The copy of an empty Sequence was given a phrase and eased, and the
\* original is still empty.
CopyDiverged ==
    /\ ret.kind = "copy"
    /\ seq._phrases = <<>>
    /\ Len(Pointee(ret, seq)._phrases) = 1
    /\ Pointee(ret, seq)._phrases[1].motion = "easeHold"
    /\ getStartValue(Pointee(ret, seq)._phrases[1]) # getEndValue(Pointee(ret, seq)._phrases[1])

\* C13: ease(fn) leaves the phrase count, the duration, the initial value,
\* every phrase's start and end positions and the blend of every phrase but
\* the last as they were, makes fn the blend of the last phrase, and changes
\* nothing on a Sequence without phrases.
EaseChangesOnlyLastBlend ==
    \A easeFn \in EaseFns :
        LET after == ease(seq, easeFn)
            n == Len(seq._phrases)
        IN  /\ n = 0 => after = seq
            /\ Len(after._phrases) = n
            /\ after._duration = seq._duration
            /\ after._initial_value = seq._initial_value
            /\ \A i \in 1 .. n :
                   /\ after._phrases[i].start = seq._phrases[i].start
                   /\ after._phrases[i].end = seq._phrases[i].end
                   /\ i < n => after._phrases[i].motion = seq._phrases[i].motion
                   /\ i = n => after._phrases[i].motion = easeFn

\* Two ramps, the second eased afterwards: the first keeps its blend.
TwoRampsLastEased ==
    /\ seq = ease(rampTo(rampTo(Sequence(F(0)), F(10), F(1), "easeNone"),
                         F(0), F(2), "easeNone"), "easeHold")
    /\ seq._phrases[1].motion = "easeNone"
    /\ seq._phrases[2].motion = "easeHold"

\* Sum of the spans (end time less start time) of the phrases of s.
RECURSIVE SumOfSpans(_, _)
SumOfSpans(s, n) ==
    IF n = 0 THEN 0
    ELSE SumOfSpans(s, n - 1)
         + (getEndTime(s._phrases[n]) - getStartTime(s._phrases[n]))

\* C14: in every Sequence in hand (built from a seed by the composition
\* calls, here with non-negative durations, a copy of such a Sequence, a
\* slice of such a Sequence), the first phrase, when there is one, starts
\* at time 0, and getDuration() is the sum of the spans of all phrases.
TimeBaseStartsAtZero ==
    NonNegativeSpans(seq) =>
        \A s \in Objects :
            /\ s._phrases # <<>> => getStartTime(s._phrases[1]) = 0
            /\ getDuration(s) = SumOfSpans(s, Len(s._phrases))

\* C15: a call slice(begin, size) on a Sequence built with non-negative
\* durations leaves the source as it was; it fails an
\* assertion exactly when begin >= phraseCount or begin + size > phraseCount;
\* every other call hands the constructor a non-empty phrase list and returns
\* a Sequence whose phrases are phrases [begin, begin + size) of the source
\* unchanged, whose initial value is the start value of the first of them
\* and whose duration is the end time of the last of them.
SliceContract ==
    [][ (/\ NonNegativeSpans(seq)
         /\ ret' # ret
         /\ ret'.kind \in {"assert", "slice", "undefined", "crash"}) =>
            LET begin == ret'.args[1]
                size == ret'.args[2]
                count == getPhraseCount(seq)
                taken == SubSeq(seq._phrases, begin + 1, begin + size)
            IN  /\ seq' = seq
                /\ (ret'.kind = "assert") <=>
                       (begin >= count \/ begin + size > count)
                /\ ret'.kind # "assert" =>
                       /\ ret'.kind = "slice"
                       /\ taken # <<>>
                       /\ ret'.obj._phrases = taken
                       /\ initialValue(ret'.obj) = getStartValue(taken[1])
                       /\ getDuration(ret'.obj) = getEndTime(taken[Len(taken)])
      ]_vars

\* The phrase getValue(atTime) evaluates in s: the position the scan stops
\* at, or 0 when an early return or the final return is taken.
Evaluated(s, atTime) ==
    IF atTime < 0 \/ atTime >= getDuration(s) THEN 0 ELSE scan(s, 1, atTime)

\* The first phrase in list order whose end time is after atTime, or 0.
FirstEndingAfter(s, atTime) ==
    LET ending == { i \in 1 .. Len(s._phrases) :
                      getEndTime(s._phrases[i]) > atTime }
    IN  IF ending = {} THEN 0
        ELSE CHOOSE i \in ending : \A j \in ending : i <= j

\* C16: for 0 <= atTime < getDuration(), getValue(atTime) is the value at
\* atTime of the first phrase in list order whose end time is greater than
\* atTime; at the time where one phrase ends and the next begins, the phrase
\* evaluated is a later one than the phrase that ends there; and a phrase of
\* zero duration that is not the last phrase is never the one evaluated.
FirstPhraseEndingAfterIsEvaluated ==
    \A t \in Times :
        (0 <= t /\ t < getDuration(seq)) =>
            LET k == FirstEndingAfter(seq, t)
            IN  /\ k # 0
                /\ getValue(seq, t) = Phrase_getValue(seq._phrases[k], t)
                /\ Evaluated(seq, t) = k
                /\ \A i \in Pairs(seq) :
                       getEndTime(seq._phrases[i]) = t => k > i
                /\ (k < Len(seq._phrases)) =>
                       getEndTime(seq._phrases[k]) # getStartTime(seq._phrases[k])

\* C17: every call leaves the phrases that were in the list where they were,
\* with their times and values: the list before the call is a prefix of the
\* list after it.  The blend of a phrase changes only for the last phrase
\* and only in a call that appends nothing and changes neither the duration
\* nor the initial value (ease).  A call of getValue, getValueWrapped,
\* wrapTime, copy or slice (a call that returns something) leaves the phrase
\* list, the initial value and the duration as they were.
PhraseListAppendOnly ==
    [][ LET n == Len(seq._phrases)
        IN  /\ Len(seq'._phrases) >= n
            /\ \A i \in 1 .. n :
                   /\ seq'._phrases[i].start = seq._phrases[i].start
                   /\ seq'._phrases[i].end = seq._phrases[i].end
                   /\ i < n => seq'._phrases[i].motion = seq._phrases[i].motion
                   /\ seq'._phrases[i].motion # seq._phrases[i].motion =>
                          /\ Len(seq'._phrases) = n
                          /\ seq'._duration = seq._duration
                          /\ seq'._initial_value = seq._initial_value
            /\ ret' # ret => seq' = seq
      ]_vars

\* Both phrases were sliced off, and the second was eased afterwards: the
\* slice still has the old blend, all times and values agree.
EasedAfterSlice ==
    /\ ret.kind = "slice"
    /\ ret.args = <<0, 2>>
    /\ Len(seq._phrases) = 2
    /\ ret.obj._phrases[1] = seq._phrases[1]
    /\ ret.obj._phrases[2].start = seq._phrases[2].start
    /\ ret.obj._phrases[2].end = seq._phrases[2].end
    /\ ret.obj._phrases[2].motion # seq._phrases[2].motion

\* C18: with 0 <= inflectionPoint < D, D the duration: wrapTime(D + d,
\* inflectionPoint) is inflectionPoint + d for every 0 < d < D -
\* inflectionPoint, and for every t > D wrapTime(t, inflectionPoint) is
\* inflectionPoint + ((t - D) mod (D - inflectionPoint)).
WrapLoopsTheTail ==
    NonNegativeSpans(seq) =>
        \A t \in Times : \A ip \in InflectionPoints :
            LET D == getDuration(seq)
            IN  (0 <= ip /\ ip < D /\ t > D) =>
                    /\ wrapTime(seq, t, ip) = ip + ((t - D) % (D - ip))
                    /\ t - D < D - ip => wrapTime(seq, t, ip) = ip + (t - D)

\* C19: in every Sequence in hand (the one under composition, a copy, a
\* slice), for every atTime with 0 <= atTime < getDuration(), the loop of
\* getValue stops at a phrase whose end time is after atTime: the return
\* after the loop is not reached.
ScanAlwaysFindsAPhrase ==
    \A s \in Objects : \A atTime \in Times :
        (0 <= atTime /\ atTime < getDuration(s)) =>
            LET iter == scan(s, 1, atTime)
            IN  /\ iter # 0
                /\ getEndTime(s._phrases[iter]) > atTime

\* A slice of the second of two phrases, asked for a time inside it: the
\* scan runs past nothing and stops at the slice's only phrase.
ScanStopsInSlice ==
    /\ ret.kind = "slice"
    /\ ret.args = <<1, 1>>
    /\ getDuration(ret.obj) = F(2)
    /\ scan(ret.obj, 1, F(1) + 1) = 1
    /\ Len(seq._phrases) = 2
    /\ scan(seq, 1, F(1) + 1) = 2

\* The phrases of s whose half-open window [start time, end time) holds t.
Containing(s, t) ==
    { i \in 1 .. Len(s._phrases) :
        getStartTime(s._phrases[i]) <= t /\ t < getEndTime(s._phrases[i]) }

\* C20: in every Sequence in hand whose phrases have non-negative durations
\* (built from a seed, a copy, a slice), for every atTime with
\* 0 <= atTime < getDuration(), the phrase getValue evaluates holds atTime
\* in its window, start time <= atTime < end time, and no other phrase does.
EvaluatedPhraseContainsTime ==
    \A s \in Objects : \A atTime \in Times :
        (NonNegativeSpans(s) /\ 0 <= atTime /\ atTime < getDuration(s)) =>
            Containing(s, atTime) = {Evaluated(s, atTime)}

====
